---- MODULE Spec2Model ----
(***************************************************************************)
(* Neutral Minds triage system: the Python TriageEngine (src/triage.py)    *)
(* in front of the Prolog knowledge base triage_kb.pl.                     *)
(*                                                                         *)
(* The knowledge base is not part of src/: its predicates (named kb_...), the *)
(* symptom vocabulary and the rule catalog are modelled from spec.md and   *)
(* from the rules the test-suite names.  The Python wrappers are modelled  *)
(* from src/triage.py.  pyswip's Prolog() is one interpreter per process,  *)
(* so the asserted symptom facts are one database shared by every          *)
(* TriageEngine object.                                                    *)
(***************************************************************************)
EXTENDS Integers, Sequences, FiniteSets, TLC

VARIABLES
    db,        \* the symptom/1 facts asserted in the Prolog database, oldest first
    engines,   \* number of TriageEngine objects constructed so far
    ret,       \* the last call made and what it returned or raised
    kb,        \* the knowledge base file: "missing", "present" or "consulted"
    pc,        \* where run_interactive stands ("idle": it is not running)
    selected_symptoms,   \* run_interactive's local list
    io         \* what run_interactive last read and what it printed for it

ui == <<pc, selected_symptoms, io>>

vars == <<db, engines, ret, kb, pc, selected_symptoms, io>>

(***************************************************************************)
(* Bounds of the model.                                                    *)
(***************************************************************************)
MaxSymptoms == 4     \* most symptoms asserted at once
MaxEngines == 2      \* most TriageEngine objects constructed
MaxInput == 2        \* longest list passed to run_triage_for_symptoms
MaxEntries == 2      \* most comma-separated entries on one input line

(***************************************************************************)
(* Knowledge base (triage_kb.pl): vocabulary and rule catalog.             *)
(***************************************************************************)
available_symptom ==
    << "chest_pain", "shortness_of_breath", "left_arm_pain", "unresponsive",
       "severe_bleeding", "seizure", "sudden_numbness", "confusion",
       "severe_headache", "high_fever", "persistent_vomiting", "stiff_neck",
       "severe_abdominal_pain", "fever", "cough", "headache", "dizziness",
       "body_ache", "joint_pain", "swelling", "runny_nose", "sore_throat",
       "fatigue" >>

Vocabulary == { available_symptom[i] : i \in DOMAIN available_symptom }

Rule(t, c, e) == [tier |-> t, cond |-> c, expl |-> e]

\* The rules in catalog order.
rule ==
    << Rule("critical", {"chest_pain", "shortness_of_breath"}, "cardiac or pulmonary emergency"),
       Rule("critical", {"chest_pain", "left_arm_pain"}, "myocardial infarction risk"),
       Rule("critical", {"unresponsive"}, "unresponsive patient"),
       Rule("critical", {"severe_bleeding"}, "severe bleeding"),
       Rule("critical", {"seizure"}, "seizure"),
       Rule("critical", {"sudden_numbness", "confusion", "severe_headache"}, "stroke signs"),
       Rule("urgent", {"high_fever", "persistent_vomiting"}, "dehydration or serious infection"),
       Rule("urgent", {"high_fever", "stiff_neck"}, "meningitis risk"),
       Rule("urgent", {"severe_abdominal_pain"}, "severe abdominal pain"),
       Rule("urgent", {"chest_pain"}, "chest pain needs prompt evaluation"),
       Rule("moderate", {"fever", "cough"}, "respiratory infection"),
       Rule("moderate", {"headache", "dizziness"}, "headache with dizziness"),
       Rule("moderate", {"fever", "body_ache"}, "flu-like illness"),
       Rule("moderate", {"joint_pain", "swelling"}, "joint inflammation"),
       Rule("moderate", {"persistent_vomiting"}, "persistent vomiting"),
       Rule("low", {"headache"}, "mild headache"),
       Rule("low", {"runny_nose"}, "common cold"),
       Rule("low", {"sore_throat"}, "sore throat"),
       Rule("low", {"fatigue"}, "fatigue"),
       Rule("low", {"fever"}, "mild fever"),
       Rule("low", {"cough"}, "mild cough") >>

\* Tiers a rule may have, highest first; "none" is no rule's tier.
tier_order == << "critical", "urgent", "moderate", "low" >>

(***************************************************************************)
(* Sequence helpers.                                                       *)
(***************************************************************************)
Range(s) == { s[i] : i \in DOMAIN s }

Contains(s, x) == \E i \in DOMAIN s : s[i] = x

RECURSIVE Without(_, _)
Without(s, x) ==
    IF s = << >> THEN << >>
    ELSE IF Head(s) = x THEN Without(Tail(s), x)
    ELSE << Head(s) >> \o Without(Tail(s), x)

(***************************************************************************)
(* Knowledge base predicates, as functions of the asserted facts d.        *)
(***************************************************************************)
\* clear_symptoms/0: retract every symptom fact.
kb_clear_symptoms(d) == << >>

\* add_symptom/1: an id outside the vocabulary is an error; an id already
\* asserted is left alone; otherwise the fact is asserted last.
kb_add_symptom(d, s) ==
    IF s \notin Vocabulary THEN [db |-> d, exc |-> "UnknownSymptomError"]
    ELSE IF Contains(d, s) THEN [db |-> d, exc |-> "ok"]
    ELSE [db |-> Append(d, s), exc |-> "ok"]

\* remove_symptom/1: retract the fact if asserted, succeed either way.
kb_remove_symptom(d, s) == [db |-> Without(d, s), exc |-> "ok"]

\* current_symptoms/1: the asserted ids, oldest first.
kb_current_symptoms(d) == d

\* fired_rules/2: the rules of one tier whose whole condition is asserted,
\* in catalog order.
kb_fired_rules(d, level) ==
    LET asserted == Range(d)
        Fires(r) == r.tier = level /\ r.cond \subseteq asserted
    IN  SelectSeq(rule, Fires)

\* extract_explanations/2
kb_extract_explanations(rules) == [ i \in DOMAIN rules |-> rules[i].expl ]

\* triage/2: one solution per tier with a fired rule, highest tier first;
\* no solution when no rule fires.
RECURSIVE TriageFrom(_, _)
TriageFrom(d, i) ==
    IF i > Len(tier_order) THEN << >>
    ELSE LET fired == kb_fired_rules(d, tier_order[i])
         IN  IF fired # << >>
             THEN << [Level |-> tier_order[i],
                      Explanations |-> kb_extract_explanations(fired)] >>
                  \o TriageFrom(d, i + 1)
             ELSE TriageFrom(d, i + 1)

kb_triage(d) == TriageFrom(d, 1)

(***************************************************************************)
(* Identifiers callers pass in the model: five symptoms of the test-suite's *)
(* rich case, which between them reach all four tiers, and one id outside  *)
(* the vocabulary.  ApiIds are the ids passed to run_triage_for_symptoms.  *)
(***************************************************************************)
Selectable ==
    { "chest_pain", "shortness_of_breath", "persistent_vomiting",
      "fever", "cough" }

UnknownIds == { "toothache" }

CallerIds == Selectable \cup UnknownIds

ApiIds == { "chest_pain", "shortness_of_breath", "fever" } \cup UnknownIds

(***************************************************************************)
(* TriageEngine methods (src/triage.py), as functions of the database.     *)
(* A query that raises in Prolog raises in Python: no method catches.      *)
(***************************************************************************)
\* __init__ without its clear_symptoms query.
init_effect_noclear(d) == d

\* __init__ consulting without looking whether the file exists.
TriageEngine_construct_unchecked(k, d) ==
    [exc |-> "ok", kb |-> "consulted", db |-> kb_clear_symptoms(d)]

\* __init__: consult the knowledge base, then query clear_symptoms.
init_effect(d) == kb_clear_symptoms(d)

\* TriageEngine(): FileNotFoundError when the file does not exist, raised
\* before consult; otherwise the file is consulted and the symptoms cleared.
TriageEngine_construct(k, d) ==
    IF k = "missing"
    THEN [exc |-> "FileNotFoundError", kb |-> k, db |-> d]
    ELSE [exc |-> "ok", kb |-> "consulted", db |-> init_effect(d)]

\* add_symptom asserting the fact itself instead of querying add_symptom.
add_symptom_effect_assert(d, s) == [db |-> Append(d, s), exc |-> "ok"]

\* add_symptom catching whatever the query raises.
add_symptom_effect_swallow(d, s) == [db |-> kb_add_symptom(d, s).db, exc |-> "ok"]

add_symptom_effect(d, s) == kb_add_symptom(d, s)

\* remove_symptom retracting every symptom fact.
remove_symptom_effect_all(d, s) == [db |-> kb_clear_symptoms(d), exc |-> "ok"]

\* remove_symptom retracting the oldest fact, whatever id is named.
remove_symptom_effect_oldest(d, s) ==
    [db |-> IF d = << >> THEN d ELSE Tail(d), exc |-> "ok"]

remove_symptom_effect(d, s) == kb_remove_symptom(d, s)

\* clear_symptoms building the query without running it.
clear_symptoms_effect_unrun(d) == d

clear_symptoms_effect(d) == kb_clear_symptoms(d)

\* get_current_symptoms: the list bound to S in the first solution.
get_current_symptoms_result(d) ==
    LET results == << [S |-> kb_current_symptoms(d)] >>
    IN  IF results # << >> THEN results[1].S ELSE << >>

\* run_triage keeping only the first explanation of the solution.
run_triage_result_one_expl(d) ==
    LET results == kb_triage(d)
    IN  IF results # << >>
        THEN [level |-> results[1].Level,
              explanations |-> << results[1].Explanations[1] >>]
        ELSE [level |-> "none",
              explanations |-> << "Unable to determine triage level." >>]

\* run_triage taking the last solution instead of the first.
run_triage_result_last(d) ==
    LET results == kb_triage(d)
    IN  IF results # << >>
        THEN [level |-> results[Len(results)].Level,
              explanations |-> results[Len(results)].Explanations]
        ELSE [level |-> "none",
              explanations |-> << "Unable to determine triage level." >>]

\* run_triage falling back to "low" when the query has no solution.
run_triage_result_default_low(d) ==
    LET results == kb_triage(d)
    IN  IF results # << >>
        THEN [level |-> results[1].Level, explanations |-> results[1].Explanations]
        ELSE [level |-> "low",
              explanations |-> << "Unable to determine triage level." >>]

\* run_triage: the first solution of triage(Level, Explanations), or "none".
run_triage_result(d) ==
    LET results == kb_triage(d)
    IN  IF results # << >>
        THEN [level |-> results[1].Level, explanations |-> results[1].Explanations]
        ELSE [level |-> "none",
              explanations |-> << "Unable to determine triage level." >>]

\* The level list written lowest first.
LEVELS_reversed == << "low", "moderate", "urgent", "critical" >>

\* The levels run_triage_all asks for, in the order it asks.
LEVELS == << "critical", "urgent", "moderate", "low" >>

\* The query with the level hard-coded instead of interpolated.
fired_query_critical(d, level) ==
    LET Rules == kb_fired_rules(d, "critical")
    IN  IF Rules # << >>
        THEN << [Rules |-> Rules, Explanations |-> kb_extract_explanations(Rules)] >>
        ELSE << >>

\* The query run_triage_all makes for one level: fired_rules(level, Rules),
\* Rules \= [], extract_explanations(Rules, Explanations).
fired_query(d, level) ==
    LET Rules == kb_fired_rules(d, level)
    IN  IF Rules # << >>
        THEN << [Rules |-> Rules, Explanations |-> kb_extract_explanations(Rules)] >>
        ELSE << >>

RECURSIVE AllLevelsFrom(_, _)
AllLevelsFrom(d, i) ==
    IF i > Len(LEVELS) THEN << >>
    ELSE LET results == fired_query(d, LEVELS[i])
         IN  IF results # << >>
             THEN << [level |-> LEVELS[i], explanations |-> results[1].Explanations] >>
                  \o AllLevelsFrom(d, i + 1)
             ELSE AllLevelsFrom(d, i + 1)

\* run_triage_all leaving its loop at the first level that has a solution.
run_triage_all_result_first(d) ==
    LET all == AllLevelsFrom(d, 1)
    IN  IF all = << >> THEN << >> ELSE << all[1] >>

run_triage_all_result(d) == AllLevelsFrom(d, 1)

(***************************************************************************)
(* run_triage_for_symptoms (src/triage.py): the programmatic entry point.  *)
(***************************************************************************)
\* for symptom in symptoms: engine.add_symptom(symptom); the first
\* exception ends the loop and leaves the function.
\* The loop constructing a new engine for every symptom.
RECURSIVE AddAll_fresh(_, _)
AddAll_fresh(d, symptoms) ==
    IF symptoms = << >> THEN [db |-> d, exc |-> "ok"]
    ELSE LET r == add_symptom_effect(init_effect(d), Head(symptoms))
         IN  IF r.exc # "ok" THEN r ELSE AddAll_fresh(r.db, Tail(symptoms))

RECURSIVE AddAll(_, _)
AddAll(d, symptoms) ==
    IF symptoms = << >> THEN [db |-> d, exc |-> "ok"]
    ELSE LET r == add_symptom_effect(d, Head(symptoms))
         IN  IF r.exc # "ok" THEN r ELSE AddAll(r.db, Tail(symptoms))

\* {lvl: exps for lvl, exps in all_levels}: one entry per key, in the order
\* the keys first appear, each with the value given last.
RECURSIVE DictFrom(_, _)
DictFrom(pairs, acc) ==
    IF pairs = << >> THEN acc
    ELSE LET p == Head(pairs)
         IN  IF \E i \in DOMAIN acc : acc[i].level = p.level
             THEN DictFrom(Tail(pairs),
                           [ i \in DOMAIN acc |->
                               IF acc[i].level = p.level THEN p ELSE acc[i] ])
             ELSE DictFrom(Tail(pairs), Append(acc, p))

NoResult == [level |-> "", explanations |-> << >>, all_levels |-> << >>,
             symptoms |-> << >>]

\* The database the call leaves, the exception it raises ("ok" for none)
\* and the dictionary it returns, from the database d it starts in.
run_triage_for_symptoms_effect(d, symptoms) ==
    LET engine == init_effect(d)
        added  == AddAll(engine, symptoms)
    IN  IF added.exc # "ok"
        THEN [db |-> added.db, exc |-> added.exc, result |-> NoResult]
        ELSE LET t == run_triage_result(added.db)
                 all_levels == run_triage_all_result(added.db)
             IN  [db |-> added.db, exc |-> "ok",
                  result |-> [level |-> t.level,
                              explanations |-> t.explanations,
                              all_levels |-> DictFrom(all_levels, << >>),
                              symptoms |-> symptoms]]

(***************************************************************************)
(* The calls a process makes.                                              *)
(***************************************************************************)
\* What is remembered of the last call: its name and argument, the
\* exception it raised ("ok" for none), its return value, whether any
\* symptom was asserted when it began and whether it changed the database.
Ret(op, arg, exc, result, dirty, changed) ==
    [op |-> op, arg |-> arg, exc |-> exc, result |-> result,
     dirty |-> dirty, changed |-> changed]

\* Nothing read or printed yet.
NoIo == [step |-> "", line |-> << >>, printed |-> << >>, evals |-> 0,
         shown |-> "", all_levels |-> << >>]

\* A process that imports triage.py with the knowledge base beside it.
Init ==
    /\ db = << >>
    /\ engines = 0
    /\ ret = Ret("start", << >>, "ok", NoResult, FALSE, FALSE)
    /\ kb = "present"
    /\ pc = "idle"
    /\ selected_symptoms = << >>
    /\ io = NoIo

\* engine = TriageEngine()
TriageEngine_init ==
    LET c == TriageEngine_construct(kb, db)
    IN  /\ engines < MaxEngines
        /\ engines' = IF c.exc = "ok" THEN engines + 1 ELSE engines
        /\ db' = c.db
        /\ kb' = c.kb
        /\ ret' = Ret("__init__", << >>, c.exc, NoResult, db # << >>, db' # db)
        /\ UNCHANGED ui

add_symptom(e, s) ==
    LET r == add_symptom_effect(db, s)
    IN  /\ Len(r.db) <= MaxSymptoms
        /\ db' = r.db
        /\ ret' = Ret("add_symptom", << s >>, r.exc, NoResult, db # << >>, db' # db)
        /\ UNCHANGED <<engines, kb, ui>>

remove_symptom(e, s) ==
    LET r == remove_symptom_effect(db, s)
    IN  /\ db' = r.db
        /\ ret' = Ret("remove_symptom", << s >>, r.exc, NoResult, db # << >>, db' # db)
        /\ UNCHANGED <<engines, kb, ui>>

clear_symptoms(e) ==
    /\ db' = clear_symptoms_effect(db)
    /\ ret' = Ret("clear_symptoms", << >>, "ok", NoResult, db # << >>, db' # db)
    /\ UNCHANGED <<engines, kb, ui>>

get_current_symptoms(e) ==
    /\ ret' = Ret("get_current_symptoms", << >>, "ok",
                  [NoResult EXCEPT !.symptoms = get_current_symptoms_result(db)],
                  db # << >>, FALSE)
    /\ UNCHANGED <<db, engines, kb, ui>>

\* run_triage retracting the symptoms it has evaluated.
run_triage_consuming(e) ==
    LET t == run_triage_result(db)
    IN  /\ ret' = Ret("run_triage", << >>, "ok",
                      [NoResult EXCEPT !.level = t.level,
                                       !.explanations = t.explanations],
                      db # << >>, db # << >>)
        /\ db' = << >>
        /\ UNCHANGED <<engines, kb, ui>>

run_triage(e) ==
    LET t == run_triage_result(db)
    IN  /\ ret' = Ret("run_triage", << >>, "ok",
                      [NoResult EXCEPT !.level = t.level,
                                       !.explanations = t.explanations],
                      db # << >>, FALSE)
        /\ UNCHANGED <<db, engines, kb, ui>>

run_triage_all(e) ==
    /\ ret' = Ret("run_triage_all", << >>, "ok",
                  [NoResult EXCEPT !.all_levels = run_triage_all_result(db)],
                  db # << >>, FALSE)
    /\ UNCHANGED <<db, engines, kb, ui>>

run_triage_for_symptoms(symptoms) ==
    LET c == TriageEngine_construct(kb, db)
        r == IF c.exc = "ok"
             THEN run_triage_for_symptoms_effect(db, symptoms)
             ELSE [db |-> c.db, exc |-> c.exc, result |-> NoResult]
    IN  /\ db' = r.db
        /\ kb' = c.kb
        /\ ret' = Ret("run_triage_for_symptoms", symptoms, r.exc, r.result,
                      db # << >>, db' # db)
        /\ UNCHANGED <<engines, ui>>

\* The lists a caller passes to run_triage_for_symptoms.
Inputs == UNION { [1..n -> ApiIds] : n \in 0..MaxInput }

Next ==
    \/ TriageEngine_init
    \/ \E e \in 1..engines, s \in CallerIds : add_symptom(e, s)
    \/ \E e \in 1..engines, s \in CallerIds : remove_symptom(e, s)
    \/ \E e \in 1..engines : clear_symptoms(e)
    \/ \E e \in 1..engines : get_current_symptoms(e)
    \/ \E e \in 1..engines : run_triage(e)
    \/ \E e \in 1..engines : run_triage_all(e)

Spec == Init /\ [][Next]_vars

\* A process that also uses the programmatic entry point.
NextApi ==
    \/ TriageEngine_init
    \/ \E e \in 1..engines, s \in ApiIds : add_symptom(e, s)
    \/ \E e \in 1..engines, s \in ApiIds : remove_symptom(e, s)
    \/ \E e \in 1..engines : clear_symptoms(e)
    \/ \E symptoms \in Inputs : run_triage_for_symptoms(symptoms)

SpecApi == Init /\ [][NextApi]_vars

(***************************************************************************)
(* What the specification says of evaluation, stated on the rule catalog   *)
(* alone.                                                                  *)
(***************************************************************************)
\* Some rule of tier t has its whole condition inside S.
TierReached(t, S) ==
    \E i \in DOMAIN rule : rule[i].tier = t /\ rule[i].cond \subseteq S

HighestTier(S) ==
    IF TierReached("critical", S) THEN "critical"
    ELSE IF TierReached("urgent", S) THEN "urgent"
    ELSE IF TierReached("moderate", S) THEN "moderate"
    ELSE IF TierReached("low", S) THEN "low"
    ELSE "none"

ReachedTiers(S) ==
    LET Reached(t) == TierReached(t, S)
    IN  SelectSeq(<< "critical", "urgent", "moderate", "low" >>, Reached)

LevelsOf(all) == [ k \in DOMAIN all |-> all[k].level ]

\* C1: the level run_triage (and run_triage_for_symptoms) returns is the
\* highest tier, in the order critical > urgent > moderate > low, that has a
\* rule whose condition is a subset of the working set, and "none" when no
\* rule's condition is.
C1_HighestTier ==
    /\ ret.op = "run_triage" => ret.result.level = HighestTier(Range(db))
    /\ (ret.op = "run_triage_for_symptoms" /\ ret.exc = "ok")
          => ret.result.level = HighestTier(Range(db))

\* A critical result for a working set that also satisfies an urgent rule.
C1_Witness ==
    /\ ret.op = "run_triage"
    /\ ret.result.level = "critical"
    /\ TierReached("urgent", Range(db))

\* C2: a rule is reported as fired exactly when its whole condition is in
\* the working set, never on part of it; chest_pain alone is urgent and
\* chest_pain with shortness_of_breath is critical.
C2_FullMatchOnly ==
    /\ ret.op = "run_triage_all" =>
          LET S == Range(db)
              all == ret.result.all_levels
          IN  /\ \A i \in DOMAIN rule :
                    (rule[i].cond \subseteq S) <=>
                       \E k \in DOMAIN all :
                          /\ all[k].level = rule[i].tier
                          /\ Contains(all[k].explanations, rule[i].expl)
              /\ \A k \in DOMAIN all : \A x \in Range(all[k].explanations) :
                    \E i \in DOMAIN rule :
                       /\ rule[i].tier = all[k].level
                       /\ rule[i].expl = x
                       /\ rule[i].cond \subseteq S
    /\ (ret.op = "run_triage" /\ Range(db) = {"chest_pain"})
          => ret.result.level = "urgent"
    /\ (ret.op = "run_triage" /\ Range(db) = {"chest_pain", "shortness_of_breath"})
          => ret.result.level = "critical"

\* chest_pain alone, part of two critical conditions, evaluated as urgent.
C2_Witness ==
    /\ ret.op = "run_triage"
    /\ Range(db) = {"chest_pain"}
    /\ ret.result.level = "urgent"

\* C3: the breakdown lists, in the order critical, urgent, moderate, low,
\* exactly the tiers with at least one fired rule: no "none", no tier
\* without a fired rule, no reached tier left out, no tier twice.
C3_Breakdown ==
    /\ ret.op = "run_triage_all" =>
          /\ LevelsOf(ret.result.all_levels) = ReachedTiers(Range(db))
          /\ \A k \in DOMAIN ret.result.all_levels :
                ret.result.all_levels[k].explanations # << >>
    /\ (ret.op = "run_triage_for_symptoms" /\ ret.exc = "ok") =>
          /\ LevelsOf(ret.result.all_levels) = ReachedTiers(Range(db))
          /\ \A k \in DOMAIN ret.result.all_levels :
                ret.result.all_levels[k].explanations # << >>

\* A breakdown with critical, urgent and low but no moderate entry.
C3_Witness ==
    /\ ret.op = "run_triage_all"
    /\ LevelsOf(ret.result.all_levels) = << "critical", "urgent", "low" >>

\* C4: a freshly constructed engine has an empty working set; with an empty
\* working set evaluation returns "none" and an empty breakdown, and
\* run_triage_for_symptoms([]) returns "none", whatever was asserted before.
C4_EmptyIsNone ==
    /\ ret.op = "__init__" => db = << >>
    /\ (ret.op = "run_triage" /\ db = << >>) => ret.result.level = "none"
    /\ (ret.op = "run_triage_all" /\ db = << >>) => ret.result.all_levels = << >>
    /\ db = << >> =>
          /\ run_triage_result(db).level = "none"
          /\ run_triage_all_result(db) = << >>
    /\ LET r == run_triage_for_symptoms_effect(db, << >>)
       IN  /\ r.exc = "ok"
           /\ r.result.level = "none"
           /\ r.result.all_levels = << >>

\* run_triage called on an engine whose working set is empty.
C4_Witness ==
    /\ ret.op = "run_triage"
    /\ db = << >>
    /\ ret.result.level = "none"

(***************************************************************************)
(* Working-set operations.                                                 *)
(***************************************************************************)
Count(s, x) == Cardinality({ i \in DOMAIN s : s[i] = x })

Except(s, x) ==
    LET Other(y) == y # x
    IN  SelectSeq(s, Other)

\* C5: add_symptom is idempotent: after add_symptom(x) with a valid x the
\* current symptoms hold x exactly once, and a second add_symptom(x) leaves
\* the working set as the first one left it.
C5_AddIdempotent ==
    /\ [](ret.op = "add_symptom" /\ ret.exc = "ok"
             => Count(get_current_symptoms_result(db), ret.arg[1]) = 1)
    /\ [][(/\ ret.op = "add_symptom" /\ ret.exc = "ok"
           /\ ret'.op = "add_symptom" /\ ret'.arg = ret.arg)
             => db' = db]_vars

\* A second add of an id already in a working set that holds it once.
C5_Witness ==
    /\ ret.op = "add_symptom"
    /\ ret.exc = "ok"
    /\ ~ret.changed
    /\ Count(db, ret.arg[1]) = 1

C7_RemoveFrame ==
    /\ [](ret.op = "remove_symptom"
             => ret.exc = "ok" /\ ~Contains(db, ret.arg[1]))
    /\ [][ret'.op = "remove_symptom"
             => /\ ~Contains(db, ret'.arg[1]) => db' = db
                /\ db' = Except(db, ret'.arg[1])]_vars

\* A remove of an absent id on a non-empty working set, which is kept.
C7_Witness ==
    /\ ret.op = "remove_symptom"
    /\ ret.exc = "ok"
    /\ ret.dirty
    /\ ~ret.changed
    /\ db # << >>

\* C8: clear_symptoms never raises and leaves the working set empty, so
\* get_current_symptoms returns the empty list.
C8_ClearEmpties ==
    /\ ret.op = "clear_symptoms" =>
          /\ ret.exc = "ok"
          /\ db = << >>
          /\ get_current_symptoms_result(db) = << >>
    /\ (ret.op = "get_current_symptoms" /\ db = << >>)
          => ret.result.symptoms = << >>

\* clear_symptoms called while symptoms were asserted.
C8_Witness ==
    /\ ret.op = "clear_symptoms"
    /\ ret.dirty
    /\ db = << >>

(***************************************************************************)
(* Relations between evaluations.                                          *)
(***************************************************************************)
Rank(t) ==
    CASE t = "critical" -> 4
      [] t = "urgent"   -> 3
      [] t = "moderate" -> 2
      [] t = "low"      -> 1
      [] OTHER          -> 0

\* The symptoms of s that are in T, in the order of s.
Pick(s, T) ==
    LET Kept(y) == y \in T
    IN  SelectSeq(s, Kept)

\* C9: adding symptoms never lowers the result: for every subset of the
\* working set, the level evaluated for the subset is no higher than the
\* level evaluated for the working set, and every tier in the subset's
\* breakdown is in the working set's breakdown.
C9_Monotone ==
    /\ ret.op = "run_triage" =>
          \A T \in SUBSET Range(db) :
             Rank(run_triage_result(Pick(db, T)).level) <= Rank(ret.result.level)
    /\ ret.op = "run_triage_all" =>
          \A T \in SUBSET Range(db) :
             Range(LevelsOf(run_triage_all_result(Pick(db, T))))
                \subseteq Range(LevelsOf(ret.result.all_levels))

\* A critical result for a working set whose subset {chest_pain} is urgent.
C9_Witness ==
    /\ ret.op = "run_triage"
    /\ ret.result.level = "critical"
    /\ Contains(db, "chest_pain")
    /\ run_triage_result(<< "chest_pain" >>).level = "urgent"

\* C10: what run_triage_for_symptoms returns or raises for an input is what
\* it returns or raises for that input in a process where nothing was
\* asserted before, and the symptoms asserted when it evaluates are those of
\* its input only.
C10_Stateless ==
    ret.op = "run_triage_for_symptoms" =>
       LET fresh == run_triage_for_symptoms_effect(<< >>, ret.arg)
       IN  /\ ret.exc = fresh.exc
           /\ ret.result = fresh.result
           /\ db = fresh.db
           /\ ret.exc = "ok" => Range(db) = Range(ret.arg)

\* A call with [fever] made while other symptoms were asserted, returning low.
C10_Witness ==
    /\ ret.op = "run_triage_for_symptoms"
    /\ ret.arg = << "fever" >>
    /\ ret.dirty
    /\ ret.changed
    /\ ret.exc = "ok"
    /\ ret.result.level = "low"

(***************************************************************************)
(* Engines, insertion order, purity, the working set as a set.             *)
(***************************************************************************)
\* What engine a's get_current_symptoms and run_triage return: every
\* engine's self.prolog is the one interpreter of the process.
EngineView(a, d) ==
    [symptoms |-> get_current_symptoms_result(d), triage |-> run_triage_result(d)]

\* A call that engine b makes on its working set or evaluates with.
CallBy(b) ==
    \/ \E s \in CallerIds : add_symptom(b, s)
    \/ \E s \in CallerIds : remove_symptom(b, s)
    \/ clear_symptoms(b)
    \/ run_triage(b)

\* C11: no operation on another engine B (its construction, add_symptom,
\* remove_symptom, clear_symptoms, run_triage) changes what engine A's
\* get_current_symptoms or run_triage returns.
C11_Independent ==
    [][\A a \in 1..engines :
          (\/ TriageEngine_init
           \/ \E b \in 1..engines : b # a /\ CallBy(b))
             => EngineView(a, db') = EngineView(a, db)]_vars

SameSet(s, t) == Range(s) = Range(t)

\* C12: two lists that add the same set of symptoms, in any order and with
\* any repetitions, get the same level, explanations and all_levels.
C12_OrderFree ==
    (ret.op = "run_triage_for_symptoms" /\ ret.exc = "ok") =>
       \A other \in Inputs :
          SameSet(other, ret.arg) =>
             LET r == run_triage_for_symptoms_effect(db, other)
             IN  /\ r.exc = "ok"
                 /\ r.result.level = ret.result.level
                 /\ r.result.explanations = ret.result.explanations
                 /\ r.result.all_levels = ret.result.all_levels

\* The critical pair passed second symptom first.
C12_Witness ==
    /\ ret.op = "run_triage_for_symptoms"
    /\ ret.arg = << "shortness_of_breath", "chest_pain" >>
    /\ ret.result.level = "critical"

\* C13: run_triage and run_triage_all never raise and leave the working
\* set as it is, and an evaluation repeated with no add, remove or clear in
\* between returns what the first returned.
C13_PureTotal ==
    /\ [](ret.op \in {"run_triage", "run_triage_all"} => ret.exc = "ok")
    /\ [][ret'.op \in {"run_triage", "run_triage_all"} => db' = db]_vars
    /\ [](ret.op = "run_triage" =>
             /\ run_triage_result(db).level = ret.result.level
             /\ run_triage_result(db).explanations = ret.result.explanations)
    /\ [](ret.op = "run_triage_all" =>
             run_triage_all_result(db) = ret.result.all_levels)

\* An evaluation of a non-empty working set, which is still asserted.
C13_Witness ==
    /\ ret.op = "run_triage"
    /\ ret.dirty
    /\ db # << >>
    /\ ret.result.level # "none"

NoDuplicates(s) == \A i, j \in DOMAIN s : s[i] = s[j] => i = j

\* A process with one TriageEngine.
NextOne ==
    \/ engines = 0 /\ TriageEngine_init
    \/ \E s \in CallerIds : add_symptom(1, s) /\ engines = 1
    \/ \E s \in CallerIds : remove_symptom(1, s) /\ engines = 1
    \/ clear_symptoms(1) /\ engines = 1
    \/ get_current_symptoms(1) /\ engines = 1
    \/ run_triage(1) /\ engines = 1
    \/ run_triage_all(1) /\ engines = 1

SpecOne == Init /\ [][NextOne]_vars

\* C14: on one engine the current symptoms are the ids added and not
\* removed or cleared since, each once: a valid add puts its id in, a
\* remove takes its id out, clear takes all out, nothing else changes the
\* set; the set becomes empty only by clear_symptoms or by removing its
\* last symptom.
C14_SetRefinement ==
    /\ [](NoDuplicates(get_current_symptoms_result(db)))
    /\ [](ret.op = "get_current_symptoms" => Range(ret.result.symptoms) = Range(db))
    /\ [][/\ (ret'.op = "add_symptom" /\ ret'.exc = "ok")
              => Range(db') = Range(db) \cup {ret'.arg[1]}
          /\ ret'.op = "remove_symptom"
              => Range(db') = Range(db) \ {ret'.arg[1]}
          /\ ret'.op = "clear_symptoms" => Range(db') = {}
          /\ ret'.op \notin {"add_symptom", "remove_symptom", "clear_symptoms", "__init__"}
              => db' = db
          /\ (db # << >> /\ db' = << >>)
              => \/ ret'.op = "clear_symptoms"
                 \/ ret'.op = "remove_symptom" /\ db = ret'.arg]_vars

\* The last symptom removed: the session is Empty again.
C14_Witness ==
    /\ ret.op = "remove_symptom"
    /\ ret.changed
    /\ db = << >>

(***************************************************************************)
(* run_interactive (src/triage.py): the terminal session.                  *)
(***************************************************************************)
\* What the user types as one entry of a line: the commands, a menu
\* number, a symptom by name, a number outside the menu, an unknown name.
Entries == { "0", "-1", "-2", "1", "Fever", "99", "toothache" }

\* int(entry), for the entries it accepts.
IntEntries == { "0", "-1", "-2", "1", "99" }

ParseInt(entry) ==
    CASE entry = "0"  -> 0
      [] entry = "-1" -> 0 - 1
      [] entry = "-2" -> 0 - 2
      [] entry = "1"  -> 1
      [] entry = "99" -> 99

\* entry.lower().replace(" ", "_")
Normalise(entry) == IF entry = "Fever" THEN "fever" ELSE entry

\* available = engine.get_available_symptoms(), the identifiers of it.
available == available_symptom

\* The state one line is processed in: the local list, the engine's facts,
\* should_run_triage, whether the function has returned, what was printed
\* and the exception that escaped, if any.
LineState(sel, d) ==
    [sel |-> sel, db |-> d, run |-> FALSE, quit |-> FALSE,
     printed |-> << >>, exc |-> "ok"]

\* engine.add_symptom(sym_id); selected_symptoms.append(sym_id); print
Added(st, sym_id) ==
    LET r == add_symptom_effect(st.db, sym_id)
    IN  IF r.exc # "ok"
        THEN [st EXCEPT !.exc = r.exc]
        ELSE [st EXCEPT !.db = r.db,
                        !.sel = Append(@, sym_id),
                        !.printed = Append(@, "Added")]

\* The body of the loop with the range test on the number left out.
process_entry_norange(st, entry) ==
    IF entry \notin IntEntries
    THEN LET name == Normalise(entry)
             Same(s) == s = name
             matching == SelectSeq(available, Same)
         IN  IF matching # << >>
             THEN IF ~Contains(st.sel, matching[1])
                  THEN Added(st, matching[1])
                  ELSE st
             ELSE [st EXCEPT !.printed = Append(@, "Unknown input")]
    ELSE LET num == ParseInt(entry)
         IN  IF num = 0 THEN [st EXCEPT !.run = TRUE]
             ELSE IF num = 0 - 1
             THEN [st EXCEPT !.db = clear_symptoms_effect(@),
                             !.sel = << >>,
                             !.printed = Append(@, "All symptoms cleared")]
             ELSE IF num = 0 - 2
             THEN [st EXCEPT !.quit = TRUE, !.printed = Append(@, "Goodbye")]
             ELSE IF num \in DOMAIN available
             THEN IF Contains(st.sel, available[num])
                  THEN [st EXCEPT !.printed = Append(@, "Already selected")]
                  ELSE Added(st, available[num])
             ELSE [st EXCEPT !.exc = "IndexError"]

\* The body of the loop with -1 clearing the engine only.
process_entry_halfclear(st, entry) ==
    IF entry \notin IntEntries
    THEN LET name == Normalise(entry)
             Same(s) == s = name
             matching == SelectSeq(available, Same)
         IN  IF matching # << >>
             THEN IF ~Contains(st.sel, matching[1])
                  THEN Added(st, matching[1])
                  ELSE st
             ELSE [st EXCEPT !.printed = Append(@, "Unknown input")]
    ELSE LET num == ParseInt(entry)
         IN  IF num = 0 THEN [st EXCEPT !.run = TRUE]
             ELSE IF num = 0 - 1
             THEN [st EXCEPT !.db = clear_symptoms_effect(@),
                             !.printed = Append(@, "All symptoms cleared")]
             ELSE IF num = 0 - 2
             THEN [st EXCEPT !.quit = TRUE, !.printed = Append(@, "Goodbye")]
             ELSE IF 1 <= num /\ num <= Len(available)
             THEN IF Contains(st.sel, available[num])
                  THEN [st EXCEPT !.printed = Append(@, "Already selected")]
                  ELSE Added(st, available[num])
             ELSE [st EXCEPT !.printed = Append(@, "Invalid number")]

\* The body of "for entry in entries" for one entry.
process_entry(st, entry) ==
    IF entry \notin IntEntries
    THEN LET name == Normalise(entry)
             Same(s) == s = name
             matching == SelectSeq(available, Same)
         IN  IF matching # << >>
             THEN IF ~Contains(st.sel, matching[1])
                  THEN Added(st, matching[1])
                  ELSE st
             ELSE [st EXCEPT !.printed = Append(@, "Unknown input")]
    ELSE LET num == ParseInt(entry)
         IN  IF num = 0 THEN [st EXCEPT !.run = TRUE]
             ELSE IF num = 0 - 1
             THEN [st EXCEPT !.db = clear_symptoms_effect(@),
                             !.sel = << >>,
                             !.printed = Append(@, "All symptoms cleared")]
             ELSE IF num = 0 - 2
             THEN [st EXCEPT !.quit = TRUE, !.printed = Append(@, "Goodbye")]
             ELSE IF 1 <= num /\ num <= Len(available)
             THEN IF Contains(st.sel, available[num])
                  THEN [st EXCEPT !.printed = Append(@, "Already selected")]
                  ELSE Added(st, available[num])
             ELSE [st EXCEPT !.printed = Append(@, "Invalid number")]

\* The loop taking the entries of the line from the last to the first.
RECURSIVE process_entries_backwards(_, _)
process_entries_backwards(st, entries) ==
    IF entries = << >> \/ st.quit \/ st.exc # "ok" THEN st
    ELSE process_entries_backwards(process_entry(st, entries[Len(entries)]),
                                   SubSeq(entries, 1, Len(entries) - 1))

\* for entry in entries: a return (-2) or an escaping exception ends it.
RECURSIVE process_entries(_, _)
process_entries(st, entries) ==
    IF entries = << >> \/ st.quit \/ st.exc # "ok" THEN st
    ELSE process_entries(process_entry(st, Head(entries)), Tail(entries))

Evaluated(st) ==
    [pc |-> "again", printed |-> st.printed, evals |-> 1,
     shown |-> run_triage_result(st.db).level,
     all_levels |-> run_triage_all_result(st.db)]

Unevaluated(st, to) ==
    [pc |-> to, printed |-> st.printed, evals |-> 0, shown |-> "",
     all_levels |-> << >>]

\* What follows the loop without the test for an empty selection.
finish_line_untested(st) ==
    IF st.exc # "ok" THEN Unevaluated(st, "exit1")
    ELSE IF st.quit THEN Unevaluated(st, "exit0")
    ELSE IF st.run THEN Evaluated(st)
    ELSE Unevaluated(st, "menu")

\* What follows the loop: the function has returned, or triage was asked
\* for and is run unless nothing is selected, or the menu is shown again.
finish_line(st) ==
    IF st.exc # "ok" THEN Unevaluated(st, "exit1")
    ELSE IF st.quit THEN Unevaluated(st, "exit0")
    ELSE IF st.run
    THEN IF st.sel = << >>
         THEN Unevaluated([st EXCEPT !.printed = Append(@, "No symptoms selected")],
                          "menu")
         ELSE Evaluated(st)
    ELSE Unevaluated(st, "menu")

\* The answers to "Run another triage? (y/n)" as typed.
Answers == { "y", "Yes", "n", "" }

\* answer.strip().lower()
StripLower(answer) == IF answer = "Yes" THEN "yes" ELSE answer

\* The answer handled with only the local list cleared.
again_effect_local(sel, d, answer) ==
    IF StripLower(answer) \in { "y", "yes" }
    THEN [pc |-> "menu", sel |-> << >>, db |-> d,
          printed |-> << "Symptoms cleared for new assessment" >>]
    ELSE [pc |-> "exit0", sel |-> sel, db |-> d, printed |-> << "Goodbye" >>]

\* The answer handled: y or yes clears engine and list, anything else ends.
again_effect(sel, d, answer) ==
    IF StripLower(answer) \in { "y", "yes" }
    THEN [pc |-> "menu", sel |-> << >>, db |-> clear_symptoms_effect(d),
          printed |-> << "Symptoms cleared for new assessment" >>]
    ELSE [pc |-> "exit0", sel |-> sel, db |-> d, printed |-> << "Goodbye" >>]

\* The lines a user types at the menu prompt.
Lines == UNION { [1..n -> Entries] : n \in 0..MaxEntries }

\* python triage.py, with or without the knowledge base beside it.
InitInteractive ==
    /\ db = << >>
    /\ engines = 0
    /\ ret = Ret("start", << >>, "ok", NoResult, FALSE, FALSE)
    /\ kb \in { "missing", "present" }
    /\ pc = "start"
    /\ selected_symptoms = << >>
    /\ io = NoIo

\* From the banner to the first prompt: the engine is constructed, or the
\* error is printed and the process exits with status 1.
interactive_start ==
    LET c == TriageEngine_construct(kb, db)
    IN  /\ pc = "start"
        /\ db' = c.db
        /\ kb' = c.kb
        /\ engines' = IF c.exc = "ok" THEN engines + 1 ELSE engines
        /\ selected_symptoms' = << >>
        /\ pc' = IF c.exc # "ok" \/ available = << >> THEN "exit1" ELSE "menu"
        /\ io' = [NoIo EXCEPT !.step = "start",
                              !.printed = IF c.exc # "ok" THEN << "ERROR" >>
                                          ELSE IF available = << >>
                                               THEN << "WARNING" >> ELSE << >>]
        /\ UNCHANGED ret

\* One line read at the menu prompt and everything done for it, up to the
\* next prompt or the end of the function.
interactive_line(line) ==
    LET st == process_entries(LineState(selected_symptoms, db), line)
        f  == finish_line(st)
    IN  /\ pc = "menu"
        /\ db' = st.db
        /\ selected_symptoms' = st.sel
        /\ pc' = f.pc
        /\ io' = [step |-> "line", line |-> line, printed |-> f.printed,
                  evals |-> f.evals, shown |-> f.shown,
                  all_levels |-> f.all_levels]
        /\ UNCHANGED <<engines, ret, kb>>

\* End of input (or Ctrl-C) at either prompt.
interactive_eof ==
    /\ pc \in { "menu", "again" }
    /\ pc' = "exit0"
    /\ io' = [NoIo EXCEPT !.step = "eof", !.printed = << "Goodbye" >>]
    /\ UNCHANGED <<db, engines, ret, kb, selected_symptoms>>

\* The answer read at "Run another triage? (y/n)".
interactive_answer(answer) ==
    LET a == again_effect(selected_symptoms, db, answer)
    IN  /\ pc = "again"
        /\ db' = a.db
        /\ selected_symptoms' = a.sel
        /\ pc' = a.pc
        /\ io' = [NoIo EXCEPT !.step = "answer", !.line = << answer >>,
                              !.printed = a.printed]
        /\ UNCHANGED <<engines, ret, kb>>

NextInteractive ==
    \/ interactive_start
    \/ \E line \in Lines : interactive_line(line)
    \/ interactive_eof
    \/ \E answer \in Answers : interactive_answer(answer)

SpecInteractive == InitInteractive /\ [][NextInteractive]_vars

(***************************************************************************)
(* Claims about the evaluation queries and the terminal session.           *)
(***************************************************************************)
\* C18: run_triage and run_triage_all agree: a level other than "none" is
\* the first entry of the breakdown, with the same explanations, which are
\* those of the fired rules of that tier in catalog order; "none" goes with
\* an empty breakdown.
C18_QueriesAgree ==
    LET t   == run_triage_result(db)
        all == run_triage_all_result(db)
    IN  /\ t.level # "none" =>
              /\ all # << >>
              /\ all[1].level = t.level
              /\ all[1].explanations = t.explanations
              /\ t.explanations =
                    kb_extract_explanations(kb_fired_rules(db, t.level))
        /\ t.level = "none" => all = << >>
        /\ ret.op = "run_triage" => ret.result.level = t.level
                                 /\ ret.result.explanations = t.explanations

C18_Witness ==
    /\ ret.op = "run_triage"
    /\ ret.result.level = "moderate"
    /\ Len(ret.result.explanations) = 2
    /\ Len(run_triage_all_result(db)) = 2

InvalidEntries == { "99", "toothache" }

Valid(line) ==
    LET Ok(e) == e \notin InvalidEntries
    IN  SelectSeq(line, Ok)

LineStep == pc = "menu" /\ io'.step = "line"

\* C15: an unknown identifier or an out-of-range number is not fatal: a
\* line leaves the engine's set, selected_symptoms and the loop where the
\* same line without those entries leaves them, every such entry that is
\* reached is answered by one message, and a line of nothing else changes
\* nothing and returns to the menu.
C15_UserErrorsNonFatal ==
    [][ LineStep =>
          LET line == io'.line
              good == process_entries(LineState(selected_symptoms, db),
                                      Valid(line))
          IN  /\ pc' # "exit1"
              /\ db' = good.db
              /\ selected_symptoms' = good.sel
              /\ pc' = finish_line(good).pc
              /\ io'.evals = finish_line(good).evals
              /\ Valid(line) = << >> =>
                    /\ pc' = "menu"
                    /\ db' = db
                    /\ selected_symptoms' = selected_symptoms
              /\ ~Contains(line, "-2") =>
                    /\ Count(io'.printed, "Unknown input") = Count(line, "toothache")
                    /\ Count(io'.printed, "Invalid number") = Count(line, "99")
      ]_vars

C15_Witness ==
    /\ pc = "menu"
    /\ io.step = "line"
    /\ io.line = << "99", "1" >>
    /\ io.printed = << "Invalid number", "Added" >>
    /\ selected_symptoms = << "chest_pain" >>
    /\ db = << "chest_pain" >>

\* C16: at "Run another triage?", y or yes empties the engine's set and
\* selected_symptoms and shows the menu again; any other answer, and the
\* end of input, end the session, which takes no further step.  A result
\* shown is the result of the symptoms selected since then.
C16_AgainClears ==
    [][ /\ (pc = "again" /\ io'.step = "answer") =>
              IF io'.line[1] \in { "y", "Yes" }
              THEN /\ pc' = "menu"
                   /\ db' = << >>
                   /\ selected_symptoms' = << >>
              ELSE pc' = "exit0"
        /\ (pc = "again" /\ io'.step = "eof") => pc' = "exit0"
        /\ pc \in { "exit0", "exit1" } => pc' = pc
        /\ (pc = "menu" /\ pc' = "again") =>
              io'.shown = kb_triage(selected_symptoms')[1].Level
      ]_vars

C16_Witness ==
    /\ pc = "menu"
    /\ io.step = "answer"
    /\ io.line = << "Yes" >>
    /\ db = << >>
    /\ selected_symptoms = << >>

\* C17: without the knowledge base file the construction of the engine
\* raises FileNotFoundError with nothing consulted and nothing asserted,
\* and the session goes from its start to exit status 1 with the error
\* printed, no engine, no prompt and no second attempt.
C17_MissingKbFatal ==
    /\ [](kb = "missing" =>
            /\ TriageEngine_construct(kb, db) =
                  [exc |-> "FileNotFoundError", kb |-> "missing", db |-> db]
            /\ pc \in { "start", "exit1" }
            /\ engines = 0
            /\ db = << >>
            /\ io.line = << >>
            /\ pc = "exit1" => io.printed = << "ERROR" >>)
    /\ [][ kb = "missing" => kb' = "missing" /\ pc = "start" /\ pc' = "exit1" ]_vars

C17_Witness ==
    /\ kb = "missing"
    /\ pc = "exit1"
    /\ io.printed = << "ERROR" >>
    /\ engines = 0

\* C19: at every prompt selected_symptoms has no duplicates and holds the
\* ids the engine holds, all of them from the vocabulary.
C19_ListMatchesEngine ==
    pc \in { "menu", "again" } =>
        /\ NoDuplicates(selected_symptoms)
        /\ Range(selected_symptoms) = Range(get_current_symptoms_result(db))
        /\ Range(selected_symptoms) \subseteq Vocabulary

C19_Witness ==
    /\ pc = "menu"
    /\ io.step = "line"
    /\ io.line = << "-1", "Fever" >>
    /\ io.printed = << "All symptoms cleared", "Added" >>
    /\ selected_symptoms = << "fever" >>
    /\ db = << "fever" >>

\* C20: triage is evaluated only with a symptom selected: a line that asks
\* for it and ends with nothing selected gets the warning and the menu, no
\* evaluation and no result, and the request itself changes nothing.
C20_NoEmptyEvaluation ==
    [][ LineStep =>
          LET line == io'.line
          IN  /\ io'.evals > 0 => selected_symptoms' # << >>
              /\ io'.shown # "" => selected_symptoms' # << >>
              /\ (Contains(line, "0") /\ ~Contains(line, "-2")
                    /\ selected_symptoms' = << >>) =>
                    /\ pc' = "menu"
                    /\ io'.evals = 0
                    /\ io'.shown = ""
                    /\ io'.all_levels = << >>
                    /\ Contains(io'.printed, "No symptoms selected")
                    /\ db' = << >>
              /\ (Range(line) = { "0" } /\ selected_symptoms = << >>) =>
                    /\ db' = db
                    /\ selected_symptoms' = selected_symptoms
      ]_vars

C20_Witness ==
    /\ pc = "menu"
    /\ io.step = "line"
    /\ io.line = << "-1", "0" >>
    /\ io.printed = << "All symptoms cleared", "No symptoms selected" >>
    /\ io.evals = 0
    /\ selected_symptoms = << >>

\* The entries of a line that come before its first -2.
BeforeQuit(line) ==
    IF Contains(line, "-2")
    THEN SubSeq(line, 1, (CHOOSE i \in DOMAIN line :
                             /\ line[i] = "-2"
                             /\ \A j \in 1..(i - 1) : line[j] # "-2") - 1)
    ELSE line

\* The position of the last -1 among entries, 0 when there is none.
LastClear(entries) ==
    IF Contains(entries, "-1")
    THEN CHOOSE i \in DOMAIN entries :
            /\ entries[i] = "-1"
            /\ \A j \in (i + 1)..Len(entries) : entries[j] # "-1"
    ELSE 0

\* The symptom an entry of the alphabet selects, "" when it selects none.
Selects(entry) ==
    CASE entry = "1"     -> "chest_pain"
      [] entry = "Fever" -> "fever"
      [] OTHER           -> ""

RECURSIVE FirstOccurrences(_)
FirstOccurrences(s) ==
    IF s = << >> THEN << >>
    ELSE LET front == FirstOccurrences(SubSeq(s, 1, Len(s) - 1))
         IN  IF Contains(front, s[Len(s)]) THEN front
             ELSE Append(front, s[Len(s)])

\* The selection a line leaves, read off the line: what was selected
\* before it unless the line clears, then the symptoms the entries after
\* the last clear select, in the order written, each once.
SelectionAfter(sel, line) ==
    LET entries == BeforeQuit(line)
        from    == LastClear(entries)
        named   == [ i \in 1..(Len(entries) - from) |-> Selects(entries[from + i]) ]
        IsId(x) == x # ""
    IN  FirstOccurrences((IF from = 0 THEN sel ELSE << >>)
                            \o SelectSeq(named, IsId))

\* C21: the entries of a line are applied from left to right; a 0 anywhere
\* on it asks for one evaluation, made once every entry has been applied,
\* so on the symptoms selected by then; a -2 ends the session at once,
\* with the later entries not applied and nothing evaluated.
C21_LeftToRightThenEvaluate ==
    [][ LineStep =>
          LET line     == io'.line
              expected == SelectionAfter(selected_symptoms, line)
          IN  /\ selected_symptoms' = expected
              /\ Range(get_current_symptoms_result(db')) = Range(expected)
              /\ io'.evals \in { 0, 1 }
              /\ io'.evals = 1 <=> /\ Contains(line, "0")
                                   /\ ~Contains(line, "-2")
                                   /\ expected # << >>
              /\ io'.evals = 1 =>
                    /\ pc' = "again"
                    /\ io'.shown = run_triage_result(expected).level
                    /\ io'.all_levels = run_triage_all_result(expected)
              /\ io'.evals = 0 => io'.shown = "" /\ pc' # "again"
              /\ Contains(line, "-2") =>
                    /\ pc' = "exit0"
                    /\ io'.evals = 0
                    /\ io'.printed[Len(io'.printed)] = "Goodbye"
      ]_vars

C21_Witness ==
    /\ pc = "again"
    /\ io.step = "line"
    /\ io.line = << "0", "1" >>
    /\ io.printed = << "Added" >>
    /\ io.evals = 1
    /\ io.shown = "urgent"
    /\ selected_symptoms = << "chest_pain" >>

====
